---------------------------- MODULE Spec2Model ----------------------------
(***************************************************************************)
(* The duopoly pricing function p of duopoly.py: one call restores a state *)
(* record from the serialized snapshot of the previous round, folds the    *)
(* market feedback into it, composes a price and serializes the record.    *)
(*                                                                         *)
(* Numbers.  A Python float is modelled as a pair <<k, v>>:                *)
(*   <<0, v>>   the finite number v / Scale (fixed point, every operation  *)
(*              rounds to the nearest multiple of 1 / Scale),              *)
(*   <<1, 0>>   +inf,   <<-1, 0>>   -inf,   <<2, 0>>   NaN,                *)
(* and Python's None is <<3, 0>>.  Scale is a multiple of 100 and of every *)
(* n up to 10, so the decimal literals of the source and the quotients of  *)
(* whole numbers by a count up to 10 are represented exactly.              *)
(***************************************************************************)
EXTENDS Integers, Sequences, FiniteSets, TLC

Scale == 2520 * 10

Fin(v) == <<0, v>>
Num(i) == <<0, i * Scale>>
Dec(i, d) == <<0, (i * Scale) \div d>>
PosInf == <<1, 0>>
NegInf == <<-1, 0>>
NaN == <<2, 0>>
None == <<3, 0>>

IsFinite(x) == x[1] = 0
IsInf(x) == x[1] = 1 \/ x[1] = -1
IsNaN(x) == x[1] = 2

Abs(i) == IF i < 0 THEN -i ELSE i
Sign(i) == IF i < 0 THEN -1 ELSE IF i > 0 THEN 1 ELSE 0

\* a / b for b > 0, rounded to the nearest integer
RoundDiv(a, b) ==
    IF a >= 0 THEN (2 * a + b) \div (2 * b) ELSE -((2 * (-a) + b) \div (2 * b))

\* the sign of a float: -1, 0 or 1 (NaN excluded by the callers)
SignOf(x) == IF IsFinite(x) THEN Sign(x[2]) ELSE x[1]

FNeg(x) == IF IsFinite(x) THEN Fin(-x[2]) ELSE IF IsInf(x) THEN <<-x[1], 0>> ELSE NaN

\* x + y
FAdd(x, y) ==
    IF IsFinite(x) /\ IsFinite(y) THEN Fin(x[2] + y[2])
    ELSE IF IsInf(x) /\ IsFinite(y) THEN x
    ELSE IF IsFinite(x) /\ IsInf(y) THEN y
    ELSE IF IsInf(x) /\ IsInf(y) /\ x = y THEN x
    ELSE NaN

\* x - y
FSub(x, y) == FAdd(x, FNeg(y))

\* the product of two scaled magnitudes, rounded: a * b / Scale
MulScaled(a, b) ==
    LET a1 == a \div Scale
        a0 == a % Scale
        b1 == b \div Scale
        b0 == b % Scale
    IN  a1 * b1 * Scale + a1 * b0 + a0 * b1 + RoundDiv(a0 * b0, Scale)

\* x * y
FMul(x, y) ==
    IF IsFinite(x) /\ IsFinite(y)
    THEN Fin(Sign(x[2]) * Sign(y[2]) * MulScaled(Abs(x[2]), Abs(y[2])))
    ELSE IF IsNaN(x) \/ IsNaN(y) \/ ~(x[1] \in {0, 1, -1}) \/ ~(y[1] \in {0, 1, -1}) THEN NaN
    ELSE IF SignOf(x) = 0 \/ SignOf(y) = 0 THEN NaN
    ELSE <<SignOf(x) * SignOf(y), 0>>

\* x / n for a count n >= 1
FDivN(x, n) ==
    IF IsFinite(x) THEN Fin(RoundDiv(x[2], n)) ELSE IF IsInf(x) THEN x ELSE NaN

\* x < y and x > y: false as soon as one side is NaN
FLt(x, y) ==
    IF IsFinite(x) /\ IsFinite(y) THEN x[2] < y[2]
    ELSE IF IsNaN(x) \/ IsNaN(y) \/ x[1] = 3 \/ y[1] = 3 THEN FALSE
    ELSE IF IsFinite(x) THEN y = PosInf
    ELSE IF IsFinite(y) THEN x = NegInf
    ELSE x = NegInf /\ y = PosInf
FGt(x, y) == FLt(y, x)

\* Python's builtin min(a, b) and max(a, b): the first argument unless the
\* second compares strictly smaller (larger)
PyMin(a, b) == IF FLt(b, a) THEN b ELSE a
PyMax(a, b) == IF FGt(b, a) THEN b ELSE a


(***************************************************************************)
(* The state record and the snapshot.                                      *)
(***************************************************************************)
MAX_HISTORY == 30

Absent == <<4, 0>>

\* feedback_data.get(key, default)
Get(v, default) == IF v = Absent THEN default ELSE v

\* the cold-start record of the first branch of step 1
ColdStart ==
    [season |-> 0,
     competitor_prices |-> <<>>, my_prices |-> <<>>, demands |-> <<>>,
     profit_history |-> <<>>,
     demand_mean |-> Num(0), demand_m2 |-> Num(0), demand_count |-> 0,
     competitor_mean |-> Num(0), competitor_m2 |-> Num(0), competitor_count |-> 0,
     base_price |-> Num(10), profit_momentum |-> Num(0), price_volatility |-> Num(1),
     competitor_trend |-> Num(0), demand_trend |-> Num(0)]

\* ColdStartFallback with a base price that drifted away from the cold-start one
ColdStartFallbackDrift ==
    [season |-> 0,
     competitor_prices |-> <<>>, my_prices |-> <<>>, demands |-> <<>>,
     profit_history |-> <<>>,
     demand_mean |-> Num(0), demand_m2 |-> Num(0), demand_count |-> 0,
     competitor_mean |-> Num(0), competitor_m2 |-> Num(0), competitor_count |-> 0,
     base_price |-> Num(12), profit_momentum |-> Num(0), price_volatility |-> Num(1),
     competitor_trend |-> Num(0), demand_trend |-> Num(0)]

\* the record the except branch of step 1 falls back to
ColdStartFallback ==
    [season |-> 0,
     competitor_prices |-> <<>>, my_prices |-> <<>>, demands |-> <<>>,
     profit_history |-> <<>>,
     demand_mean |-> Num(0), demand_m2 |-> Num(0), demand_count |-> 0,
     competitor_mean |-> Num(0), competitor_m2 |-> Num(0), competitor_count |-> 0,
     base_price |-> Num(10), profit_momentum |-> Num(0), price_volatility |-> Num(1),
     competitor_trend |-> Num(0), demand_trend |-> Num(0)]

\* A snapshot argument: None, the empty string, a text json.loads rejects, or
\* the text of a JSON object (obj: its members, each value a number literal
\* or an array of number literals).
NoneSnap == [kind |-> "none", obj |-> <<>>]
EmptySnap == [kind |-> "empty", obj |-> <<>>]
GarbageSnap == [kind |-> "garbage", obj |-> <<>>]
JsonSnap(o) == [kind |-> "json", obj |-> o]

\* the keys of the record that hold an int, and those that hold a list of floats
IntKeys == {"season", "demand_count", "competitor_count"}
ListKeys == {"competitor_prices", "my_prices", "demands", "profit_history"}

\* JsonFloat writing a not-a-number as null, as a strict JSON encoder does
JsonFloatStrict(x) ==
    IF IsFinite(x) THEN [lit |-> "float", digits |-> x[2]]
    ELSE IF x = PosInf THEN [lit |-> "Infinity", digits |-> 0]
    ELSE IF x = NegInf THEN [lit |-> "-Infinity", digits |-> 0]
    ELSE [lit |-> "null", digits |-> 0]

\* the literal json.dumps writes for a float: its repr, which identifies the
\* float, or one of NaN, Infinity and -Infinity (allow_nan is left on)
JsonFloat(x) ==
    IF IsFinite(x) THEN [lit |-> "float", digits |-> x[2]]
    ELSE IF x = PosInf THEN [lit |-> "Infinity", digits |-> 0]
    ELSE IF x = NegInf THEN [lit |-> "-Infinity", digits |-> 0]
    ELSE [lit |-> "NaN", digits |-> 0]

\* the literal json.dumps writes for an int
JsonInt(n) == [lit |-> "int", digits |-> n]

\* the value json.loads reads from a literal
JsonValue(t) ==
    IF t.lit = "int" THEN t.digits
    ELSE IF t.lit = "float" THEN Fin(t.digits)
    ELSE IF t.lit = "Infinity" THEN PosInf
    ELSE IF t.lit = "-Infinity" THEN NegInf
    ELSE IF t.lit = "NaN" THEN NaN
    ELSE None

\* json.dumps(state, separators=(',', ':'))
JsonDumps(state) ==
    JsonSnap([k \in DOMAIN state |->
                IF k \in IntKeys THEN JsonInt(state[k])
                ELSE IF k \in ListKeys
                     THEN [i \in 1..Len(state[k]) |-> JsonFloat(state[k][i])]
                     ELSE JsonFloat(state[k])])

\* json.loads succeeds
JsonParses(snap) == snap.kind = "json"

\* json.loads(information_dump_last_round) of a text that parses
JsonLoads(snap) ==
    [k \in DOMAIN snap.obj |->
        IF k \in ListKeys
        THEN [i \in 1..Len(snap.obj[k]) |-> JsonValue(snap.obj[k][i])]
        ELSE JsonValue(snap.obj[k])]

\* step 1, DESERIALIZE STATE
Restore(snap) ==
    IF snap.kind = "none" \/ snap.kind = "empty" THEN ColdStart
    ELSE IF JsonParses(snap) THEN JsonLoads(snap)
    ELSE ColdStartFallback

Has(state, k) == k \in DOMAIN state

\* Push evicting one entry too late
PushLate(hist, x) ==
    LET h == Append(hist, x)
    IN  IF Len(h) > MAX_HISTORY + 1 THEN Tail(h) ELSE h

\* Push evicting with pop() instead of pop(0): the newest entry goes
PushEvictsNewest(hist, x) ==
    LET h == Append(hist, x)
    IN  IF Len(h) > MAX_HISTORY THEN SubSeq(h, 1, Len(h) - 1) ELSE h

\* list.append followed by pop(0) once the list is longer than MAX_HISTORY
Push(hist, x) ==
    LET h == Append(hist, x)
    IN  IF Len(h) > MAX_HISTORY THEN Tail(h) ELSE h

\* FoldCompetitor that counts a competitor price only when it is positive
FoldCompetitorCountsPositive(state, competitor_price) ==
    IF competitor_price = None THEN state
    ELSE LET n == state.competitor_count + (IF FGt(competitor_price, Num(0)) THEN 1 ELSE 0)
             delta == FSub(competitor_price, state.competitor_mean)
             mean == FAdd(state.competitor_mean, FDivN(delta, state.competitor_count + 1))
             delta2 == FSub(competitor_price, mean)
         IN  [state EXCEPT
                !.competitor_prices = Push(@, competitor_price),
                !.competitor_count = n,
                !.competitor_mean = mean,
                !.competitor_m2 = FAdd(@, FMul(delta, delta2))]

\* step 3, competitor part: ring buffer and Welford update
FoldCompetitor(state, competitor_price) ==
    IF competitor_price = None THEN state
    ELSE LET n == state.competitor_count + 1
             delta == FSub(competitor_price, state.competitor_mean)
             mean == FAdd(state.competitor_mean, FDivN(delta, n))
             delta2 == FSub(competitor_price, mean)
         IN  [state EXCEPT
                !.competitor_prices = Push(@, competitor_price),
                !.competitor_count = n,
                !.competitor_mean = mean,
                !.competitor_m2 = FAdd(@, FMul(delta, delta2))]

\* FoldsDemand looking at the own price only
FoldsDemandOwnPriceOnly(demand, my_last_price) == my_last_price # None

\* the guard of the demand part
FoldsDemand(demand, my_last_price) == demand # None /\ my_last_price # None

\* the profit momentum after a profit was appended
Momentum(profits, momentum) ==
    IF Len(profits) >= 2
    THEN LET profit_change == FSub(profits[Len(profits)], profits[Len(profits) - 1])
             alpha == Dec(1, 10)
         IN  FAdd(FMul(alpha, profit_change), FMul(FSub(Num(1), alpha), momentum))
    ELSE momentum

\* FoldDemand with the second difference taken from the mean before the update
FoldDemandStaleMean(state, demand, my_last_price) ==
    IF ~FoldsDemand(demand, my_last_price) THEN state
    ELSE LET n == state.demand_count + 1
             delta == FSub(demand, state.demand_mean)
             mean == FAdd(state.demand_mean, FDivN(delta, n))
             delta2 == FSub(demand, state.demand_mean)
             cost == Num(5)
             profit == FMul(FSub(my_last_price, cost), demand)
             profits == Push(state.profit_history, profit)
         IN  [state EXCEPT
                !.demands = Push(@, demand),
                !.my_prices = Push(@, my_last_price),
                !.demand_count = n,
                !.demand_mean = mean,
                !.demand_m2 = FAdd(@, FMul(delta, delta2)),
                !.profit_history = profits,
                !.profit_momentum = Momentum(profits, @)]

\* FoldDemand that appends the profit without evicting from the profit history
FoldDemandUnboundedProfit(state, demand, my_last_price) ==
    IF ~FoldsDemand(demand, my_last_price) THEN state
    ELSE LET n == state.demand_count + 1
             delta == FSub(demand, state.demand_mean)
             mean == FAdd(state.demand_mean, FDivN(delta, n))
             delta2 == FSub(demand, mean)
             cost == Num(5)
             profit == FMul(FSub(my_last_price, cost), demand)
             profits == Append(state.profit_history, profit)
         IN  [state EXCEPT
                !.demands = Push(@, demand),
                !.my_prices = Push(@, my_last_price),
                !.demand_count = n,
                !.demand_mean = mean,
                !.demand_m2 = FAdd(@, FMul(delta, delta2)),
                !.profit_history = profits,
                !.profit_momentum = Momentum(profits, @)]

\* step 3, demand part: ring buffers, Welford update, profit and momentum
FoldDemand(state, demand, my_last_price) ==
    IF ~FoldsDemand(demand, my_last_price) THEN state
    ELSE LET n == state.demand_count + 1
             delta == FSub(demand, state.demand_mean)
             mean == FAdd(state.demand_mean, FDivN(delta, n))
             delta2 == FSub(demand, mean)
             cost == Num(5)
             profit == FMul(FSub(my_last_price, cost), demand)
             profits == Push(state.profit_history, profit)
         IN  [state EXCEPT
                !.demands = Push(@, demand),
                !.my_prices = Push(@, my_last_price),
                !.demand_count = n,
                !.demand_mean = mean,
                !.demand_m2 = FAdd(@, FMul(delta, delta2)),
                !.profit_history = profits,
                !.profit_momentum = Momentum(profits, @)]

\* TrendStep without the caps at 1.0 and -1.0
TrendStepUncapped(hist, trend) ==
    IF Len(hist) >= 3
    THEN LET last == hist[Len(hist)]
             first == hist[Len(hist) - 2]
         IN  IF FGt(last, first) THEN FAdd(trend, Dec(2, 10))
             ELSE IF FLt(last, first) THEN FSub(trend, Dec(2, 10))
             ELSE FMul(trend, Dec(8, 10))
    ELSE trend

\* TrendStep that lets the trend decay, instead of lowering it, on a fall
TrendStepNoFall(hist, trend) ==
    IF Len(hist) >= 3
    THEN LET last == hist[Len(hist)]
             first == hist[Len(hist) - 2]
         IN  IF FGt(last, first) THEN PyMin(Num(1), FAdd(trend, Dec(2, 10)))
             ELSE FMul(trend, Dec(8, 10))
    ELSE trend

\* TrendStep that waits for a fourth entry
TrendStepNeedsFour(hist, trend) ==
    IF Len(hist) >= 4
    THEN LET last == hist[Len(hist)]
             first == hist[Len(hist) - 2]
         IN  IF FGt(last, first) THEN PyMin(Num(1), FAdd(trend, Dec(2, 10)))
             ELSE IF FLt(last, first) THEN PyMax(Num(-1), FSub(trend, Dec(2, 10)))
             ELSE FMul(trend, Dec(8, 10))
    ELSE trend

\* step 4 for one history: the trend signal after looking at the last three entries
TrendStep(hist, trend) ==
    IF Len(hist) >= 3
    THEN LET last == hist[Len(hist)]
             first == hist[Len(hist) - 2]
         IN  IF FGt(last, first) THEN PyMin(Num(1), FAdd(trend, Dec(2, 10)))
             ELSE IF FLt(last, first) THEN PyMax(Num(-1), FSub(trend, Dec(2, 10)))
             ELSE FMul(trend, Dec(8, 10))
    ELSE trend

\* step 4, CALCULATE TREND SIGNALS
UpdateTrends(state) ==
    [state EXCEPT
       !.competitor_trend = TrendStep(state.competitor_prices, @),
       !.demand_trend = TrendStep(state.demands, @)]

\* ClampBase with the arguments of min and max swapped: a NaN passes through
ClampBaseSwapped(x) == PyMax(PyMin(x, Num(15)), Num(6))

\* the bounds step 5 keeps the base price in
ClampBase(x) == PyMax(Num(6), PyMin(Num(15), x))

\* UpdateBasePrice taking the competitor side for the demand side: guarded by
\* the competitor count and driven by the competitor trend
UpdateBasePriceOnCompetitor(state) ==
    IF state.competitor_count > 0
    THEN LET base_adjustment == FAdd(FMul(Dec(2, 100), state.profit_momentum),
                                     FMul(Dec(1, 100), state.competitor_trend))
         IN  [state EXCEPT !.base_price = ClampBase(FAdd(@, base_adjustment))]
    ELSE state

\* step 5, ADAPTIVE BASE PRICE UPDATE
UpdateBasePrice(state) ==
    IF state.demand_count > 0
    THEN LET base_adjustment == FAdd(FMul(Dec(2, 100), state.profit_momentum),
                                     FMul(Dec(1, 100), state.demand_trend))
         IN  [state EXCEPT !.base_price = ClampBase(FAdd(@, base_adjustment))]
    ELSE state

\* CompetitorResponse that adds the trend term whether or not a competitor
\* price came with the call
CompetitorResponseTrendAlways(state, competitor_price, price) ==
    IF competitor_price # None /\ FGt(competitor_price, Num(0))
    THEN LET competitor_gap == FSub(competitor_price, price)
             followed == FAdd(price, FMul(Dec(3, 10), competitor_gap))
         IN  FAdd(followed, FMul(Dec(5, 10), state.competitor_trend))
    ELSE FAdd(price, FMul(Dec(5, 10), state.competitor_trend))

\* CompetitorResponse that also follows a competitor price of zero
CompetitorResponseNonNegative(state, competitor_price, price) ==
    IF competitor_price # None /\ ~FLt(competitor_price, Num(0)) /\ ~IsNaN(competitor_price)
    THEN LET competitor_gap == FSub(competitor_price, price)
             followed == FAdd(price, FMul(Dec(3, 10), competitor_gap))
         IN  FAdd(followed, FMul(Dec(5, 10), state.competitor_trend))
    ELSE price

\* step 6, competitor-responsive pricing
CompetitorResponse(state, competitor_price, price) ==
    IF competitor_price # None /\ FGt(competitor_price, Num(0))
    THEN LET competitor_gap == FSub(competitor_price, price)
             followed == FAdd(price, FMul(Dec(3, 10), competitor_gap))
         IN  FAdd(followed, FMul(Dec(5, 10), state.competitor_trend))
    ELSE price

\* step 6, demand-responsive adjustment.  demand_std > 3.0 is decided on the
\* variance: sqrt is increasing, sqrt(9) = 3, and max(0, NaN) is 0.
DemandResponse(state, price) ==
    IF state.demand_count > 5
    THEN LET demand_variance == FDivN(state.demand_m2, state.demand_count - 1)
             std_over_3 == FGt(PyMax(Num(0), demand_variance), Num(9))
             adjusted == IF FGt(state.demand_mean, Num(6)) THEN FAdd(price, Dec(3, 10))
                         ELSE IF FLt(state.demand_mean, Num(3)) THEN FSub(price, Dec(2, 10))
                         ELSE price
         IN  IF std_over_3
             THEN FAdd(FMul(Dec(7, 10), adjusted), FMul(Dec(3, 10), state.base_price))
             ELSE adjusted
    ELSE price

\* step 6, CALCULATE PRICING DECISION
ComposePrice(state, competitor_price) ==
    DemandResponse(state, CompetitorResponse(state, competitor_price, state.base_price))

\* PriceBounds without the hard bounds: only the NaN / infinity fallback is left
PriceBoundsNoClamp(state, price) ==
    IF IsNaN(price) \/ IsInf(price) THEN state.base_price ELSE price

\* step 7, PRICE BOUNDS & EDGE CASE HANDLING
PriceBounds(state, price) ==
    LET bounded == PyMax(Num(1), PyMin(Num(20), price))
    IN  IF IsNaN(bounded) \/ IsInf(bounded) THEN state.base_price ELSE bounded


\* Whether the call ends in a KeyError: the keys steps 2 to 6 read, in the
\* order of the code, against the keys the restored object has.
RaisesKeyError(state, feedback) ==
    IF ~Has(state, "base_price") THEN TRUE
    ELSE LET competitor_price == Get(feedback.competitor_price, None)
             demand == Get(feedback.demand, None)
             my_last_price == Get(feedback.my_last_price, state.base_price)
             folds == FoldsDemand(demand, my_last_price)
             first == (IF competitor_price # None
                       THEN {"competitor_prices", "competitor_count",
                             "competitor_mean", "competitor_m2"}
                       ELSE {})
                      \cup (IF folds
                            THEN {"demands", "my_prices", "demand_count", "demand_mean",
                                  "demand_m2", "profit_history"}
                            ELSE {})
                      \cup {"competitor_prices", "demands", "demand_count"}
         IN  IF ~(first \subseteq DOMAIN state) THEN TRUE
             ELSE LET lenC == Len(state.competitor_prices)
                                + (IF competitor_price # None THEN 1 ELSE 0)
                      lenD == Len(state.demands) + (IF folds THEN 1 ELSE 0)
                      count == state.demand_count + (IF folds THEN 1 ELSE 0)
                      later == (IF folds /\ Len(state.profit_history) >= 1
                                THEN {"profit_momentum"} ELSE {})
                               \cup (IF lenC >= 3 THEN {"competitor_trend"} ELSE {})
                               \cup (IF lenD >= 3 THEN {"demand_trend"} ELSE {})
                               \cup (IF count > 0
                                     THEN {"profit_momentum", "demand_trend"} ELSE {})
                               \cup (IF competitor_price # None
                                        /\ FGt(competitor_price, Num(0))
                                     THEN {"competitor_trend"} ELSE {})
                               \cup (IF count > 5 THEN {"demand_m2", "demand_mean"} ELSE {})
                  IN  ~(later \subseteq DOMAIN state)

\* UpdateState with the own last price defaulting to the cold-start base price
UpdateStateDefaultsToTen(state, feedback) ==
    LET competitor_price == Get(feedback.competitor_price, None)
        demand == Get(feedback.demand, None)
        my_last_price == Get(feedback.my_last_price, Num(10))
    IN  UpdateBasePrice(
            UpdateTrends(
                FoldDemand(FoldCompetitor(state, competitor_price), demand, my_last_price)))

\* steps 2 to 5 on a restored record that has every key the call reads
UpdateState(state, feedback) ==
    LET competitor_price == Get(feedback.competitor_price, None)
        demand == Get(feedback.demand, None)
        my_last_price == Get(feedback.my_last_price, state.base_price)
    IN  UpdateBasePrice(
            UpdateTrends(
                FoldDemand(FoldCompetitor(state, competitor_price), demand, my_last_price)))

\* Stamp that leaves the season of the restored record in place
StampMissing(state, current_selling_season) == state

\* the season counter update before step 8
Stamp(state, current_selling_season) == [state EXCEPT !.season = current_selling_season]

\* json.dumps(state) raises TypeError: the record holds a number of a type the
\* encoder does not know.  Every number the call writes into the record comes
\* out of float() or of arithmetic with the feedback, so this happens when an
\* observation of such a type (numpy.longdouble) was folded.
DumpsRaises(feedback) ==
    LET competitor_price == Get(feedback.competitor_price, None)
        demand == Get(feedback.demand, None)
        my_last_price == Get(feedback.my_last_price, Num(0))
    IN  /\ feedback.numbers = "longdouble"
        /\ (competitor_price # None \/ FoldsDemand(demand, my_last_price))

\* step 8, SERIALIZE STATE FOR NEXT ROUND: the record, or the minimal record
\* of the except branch
Serialize(state, current_selling_season, price, feedback) ==
    IF DumpsRaises(feedback)
    THEN JsonDumps([season |-> current_selling_season, base_price |-> price])
    ELSE JsonDumps(state)

\* p(current_selling_season, information_dump_last_round, **feedback_data)
P(current_selling_season, information_dump_last_round, feedback) ==
    LET restored_state == Restore(information_dump_last_round)
    IN  IF RaisesKeyError(restored_state, feedback)
        THEN [raised |-> TRUE, price |-> None, dump |-> NoneSnap, state |-> restored_state]
        ELSE LET updated == UpdateState(restored_state, feedback)
                 price == PriceBounds(updated,
                              ComposePrice(updated, Get(feedback.competitor_price, None)))
                 state == Stamp(updated, current_selling_season)
             IN  [raised |-> FALSE, price |-> price,
                  dump |-> Serialize(state, current_selling_season, price, feedback),
                  state |-> state]

(***************************************************************************)
(* The caller: it keeps the snapshot the last call returned and hands it   *)
(* back, or hands in no snapshot, an empty one, or a text that is not a    *)
(* snapshot of this function.                                              *)
(***************************************************************************)
VARIABLES
    dump,       \* the snapshot the caller holds (None before the first call)
    price,      \* the price the last call returned
    outcome,    \* "idle", "returned" or "raised": how the last call ended
    last,       \* the arguments of the last call
    restored,   \* the record the last call restored in step 1
    ended,      \* the record the last call ended with, before it was serialized
    sent,       \* the observations handed in since the last cold start
    ncalls      \* the number of calls made

vars == <<dump, price, outcome, last, restored, ended, sent, ncalls>>

MaxCalls == 6

\* feedback whose numbers are Python floats or ints, and feedback whose numbers
\* are numpy.longdouble
Fb(c, d, m) ==
    [competitor_price |-> c, demand |-> d, my_last_price |-> m, numbers |-> "float"]
FbLong(c, d, m) ==
    [competitor_price |-> c, demand |-> d, my_last_price |-> m, numbers |-> "longdouble"]
NoFeedback == Fb(Absent, Absent, Absent)

\* the feedback of a call along a lineage
Feedbacks ==
    { NoFeedback,                          \* missing data
      Fb(Num(10), Num(2), Absent),         \* low demand, own price defaulted
      Fb(Num(50), Num(20), Num(10)),       \* very high competitor price, high demand
      Fb(Num(0), Absent, Num(10)),         \* zero competitor price, own price without demand
      Fb(PosInf, NaN, Absent) }            \* infinite and not-a-number feedback

\* further feedback of the first call of a lineage
FirstFeedbacks ==
    Feedbacks \cup
    { Fb(Num(10), Num(0), Num(10)),        \* zero demand
      Fb(Dec(1, 10), Num(1), Num(10)),     \* very low competitor price
      Fb(NaN, PosInf, Num(10)),            \* not-a-number and infinite feedback
      Fb(NegInf, Num(1), None),            \* own price given as None
      Fb(Absent, Num(8), Num(12)) }        \* demand without a competitor price

\* the feedback of a call that hands in a damaged snapshot
RecoveryFeedbacks == { NoFeedback, Fb(Num(10), Num(5), Absent) }

\* the season of a call that hands in a damaged snapshot
RecoverySeason == 5

\* texts that parse to an object lacking fields of the record: one holding
\* only a season, and the minimal record of the serialization fallback
PartialSnaps ==
    { JsonDumps([season |-> 4]),
      JsonDumps([season |-> 4, base_price |-> Num(10)]) }

\* the competitor prices, and the demands that came with an own price (given
\* or defaulted), handed in along the lineage of the snapshot
NothingSent == [competitor |-> <<>>, demand |-> <<>>]
Sent(before, feedback) ==
    [competitor |-> IF feedback.competitor_price \in {Absent, None}
                    THEN before.competitor
                    ELSE Append(before.competitor, feedback.competitor_price),
     demand |-> IF feedback.demand \in {Absent, None} \/ feedback.my_last_price = None
                THEN before.demand
                ELSE Append(before.demand, feedback.demand)]

Init ==
    /\ dump = NoneSnap
    /\ price = None
    /\ outcome = "idle"
    /\ last = [season |-> 0, kind |-> "idle", feedback |-> NoFeedback]
    /\ restored = ColdStart
    /\ ended = ColdStart
    /\ sent = NothingSent
    /\ ncalls = 0

\* price, dump = p(season, snap, **feedback); an exception ends the caller
Call(season, snap, kind, feedback) ==
    /\ outcome # "raised"
    /\ \E r \in {P(season, snap, feedback)} :
           /\ outcome' = IF r.raised THEN "raised" ELSE "returned"
           /\ dump' = IF r.raised THEN dump ELSE r.dump
           /\ price' = IF r.raised THEN price ELSE r.price
           /\ restored' = IF r.raised THEN restored ELSE Restore(snap)
           /\ ended' = IF r.raised THEN ended ELSE r.state
           /\ sent' = IF r.raised THEN sent
                      ELSE Sent(IF kind = "dump" THEN sent ELSE NothingSent, feedback)
    /\ last' = [season |-> season, kind |-> kind, feedback |-> feedback]
    /\ ncalls' = ncalls + 1

\* the first call of a caller: no snapshot, or the empty string
ColdCall ==
    /\ ncalls < MaxCalls
    /\ dump.kind = "none"
    /\ \E feedback \in FirstFeedbacks, snap \in {NoneSnap, EmptySnap} :
          Call(ncalls + 1, snap, snap.kind, feedback)

\* a call with a text that does not parse
CorruptCall ==
    /\ ncalls < MaxCalls
    /\ \E feedback \in RecoveryFeedbacks :
          Call(RecoverySeason, GarbageSnap, "garbage", feedback)

\* a call with a text that parses to an incomplete record
PartialCall ==
    /\ ncalls < MaxCalls
    /\ \E feedback \in RecoveryFeedbacks, snap \in PartialSnaps :
          Call(RecoverySeason, snap, "partial", feedback)

\* a call of the season loop, with the snapshot the previous call returned
NextCall ==
    /\ ncalls < MaxCalls
    /\ dump.kind = "json"
    /\ \E feedback \in Feedbacks :
          Call(ncalls + 1, dump, "dump", feedback)

Next == ColdCall \/ CorruptCall \/ PartialCall \/ NextCall

Spec == Init /\ [][Next]_vars


(***************************************************************************)
(* A long season: every round either brings both observations or none.     *)
(* The competitor raises its price by one each time it is observed, the    *)
(* demand falls by one, and the own price equals the unit cost.            *)
(***************************************************************************)
MaxLongCalls == 32

LongFeedback(k) == Fb(Num(k), Num(MAX_HISTORY + 10 - k), Num(5))

LongCall ==
    /\ ncalls < MaxLongCalls
    /\ \E feedback \in {NoFeedback, LongFeedback(Len(sent.competitor) + 1)} :
          Call(ncalls + 1, dump, IF dump.kind = "json" THEN "dump" ELSE dump.kind, feedback)

NextLong == LongCall

SpecLong == Init /\ [][NextLong]_vars

(***************************************************************************)
(* The trend scenario: from cold start, TrendRun calls with strictly       *)
(* rising competitor prices, then TrendRun calls with strictly falling     *)
(* ones, each with demand 5 and own price 10.                              *)
(***************************************************************************)
TrendRun == 5
MaxTrendLevels == 7

TrendPrices == { Num(2 * i) : i \in 1..MaxTrendLevels }

TrendCall(competitor_price) ==
    Call(ncalls + 1, dump, IF dump.kind = "json" THEN "dump" ELSE dump.kind,
         Fb(competitor_price, Num(5), Num(10)))

RisingCall ==
    /\ ncalls < TrendRun
    /\ \E c \in TrendPrices :
          /\ ncalls > 0 => FGt(c, sent.competitor[ncalls])
          /\ TrendCall(c)

FallingCall ==
    /\ ncalls >= TrendRun
    /\ ncalls < 2 * TrendRun
    /\ \E c \in TrendPrices :
          /\ ncalls > TrendRun => FLt(c, sent.competitor[ncalls])
          /\ TrendCall(c)

NextTrend == RisingCall \/ FallingCall

SpecTrend == Init /\ [][NextTrend]_vars

(***************************************************************************)
(* A season whose feedback may come as numpy.longdouble numbers: folding   *)
(* one leaves a number in the record that json.dumps rejects.              *)
(***************************************************************************)
MaxTypedCalls == 4

TypedFeedbacks ==
    { NoFeedback,
      Fb(Num(10), Num(5), Absent),
      Fb(Num(50), Num(20), Num(10)),
      FbLong(Num(50), Num(5), Num(10)),    \* both observations are folded
      FbLong(Num(10), Absent, Absent),     \* a competitor price equal to the base price
      FbLong(Absent, Absent, Num(10)) }    \* an own price without demand: nothing is folded

TypedCall ==
    /\ ncalls < MaxTypedCalls
    /\ \E feedback \in TypedFeedbacks :
          Call(ncalls + 1, dump, IF dump.kind = "json" THEN "dump" ELSE dump.kind, feedback)

NextTyped == TypedCall

SpecTyped == Init /\ [][NextTyped]_vars


(***************************************************************************)
(* The claims.                                                             *)
(***************************************************************************)
Returned == outcome = "returned"
State == JsonLoads(dump)

\* x is a finite number between lo and hi (whole numbers)
Within(x, lo, hi) == x[1] = 0 /\ lo * Scale <= x[2] /\ x[2] <= hi * Scale

\* C1: every call of a lineage that starts cold returns a finite price p with
\* 1.0 <= p <= 20.0, whatever feedback is present, absent, zero or extreme.
C1_PriceInRange == Returned => Within(price, 1, 20)

\* a call with infinite and not-a-number feedback, the demand adjustment
\* active, returned the upper bound
C1_Witness ==
    /\ Returned
    /\ last.feedback.competitor_price = PosInf
    /\ State.demand_count > 5
    /\ price = Num(20)

\* C2: the call is total: whatever the snapshot (none, empty, unparseable, or
\* a text that parses) and the feedback, p returns and raises nothing.
C2_CallIsTotal == outcome # "raised"

\* r is the default record: empty histories, zero counts and trends, base price 10
IsDefaultRecord(r) ==
    /\ r.competitor_prices = <<>> /\ r.my_prices = <<>>
    /\ r.demands = <<>> /\ r.profit_history = <<>>
    /\ r.demand_mean = Num(0) /\ r.demand_m2 = Num(0) /\ r.demand_count = 0
    /\ r.competitor_mean = Num(0) /\ r.competitor_m2 = Num(0) /\ r.competitor_count = 0
    /\ r.base_price = Num(10) /\ r.profit_momentum = Num(0)
    /\ r.competitor_trend = Num(0) /\ r.demand_trend = Num(0)

\* C3: a snapshot that parses but lacks fields of the record is completed from
\* the default record, and the call proceeds from the completed record: here
\* the two incomplete snapshots carry nothing but a season and the default base
\* price, so the call returns and the record it worked on is the default one.
C3_PartialIsBackfilled ==
    last.kind = "partial" => (Returned /\ IsDefaultRecord(restored))

\* C5: a call with no snapshot, with an empty snapshot or with an unparseable
\* one starts from the default record, and for the same season and feedback all
\* three return the same price and the same new snapshot.
C5_ColdStartsAgree ==
    last.kind \in {"none", "empty", "garbage"} =>
        /\ Returned
        /\ IsDefaultRecord(restored)
        /\ \A snap \in {NoneSnap, EmptySnap, GarbageSnap} :
              LET r == P(last.season, snap, last.feedback)
              IN  ~r.raised /\ r.price = price /\ r.dump = dump

\* an unparseable snapshot was handed in together with feedback, and the call returned
C5_Witness ==
    /\ Returned
    /\ last.kind = "garbage"
    /\ last.feedback.demand = Num(5)
    /\ State.demand_count = 1


\* C4: after every call of a lineage that starts cold, each of the four
\* histories of the returned snapshot has at most 30 entries.
C4_HistoriesBounded ==
    Returned =>
        /\ Len(State.competitor_prices) <= 30
        /\ Len(State.my_prices) <= 30
        /\ Len(State.demands) <= 30
        /\ Len(State.profit_history) <= 30

\* more than 30 observations of each kind were folded and the buffers are full
C4_Witness ==
    /\ Returned
    /\ State.competitor_count > 30 /\ State.demand_count > 30
    /\ Len(State.competitor_prices) = 30 /\ Len(State.my_prices) = 30
    /\ Len(State.demands) = 30 /\ Len(State.profit_history) = 30

\* the call had no demand in its feedback
NoDemand == last.feedback.demand \in {Absent, None}

\* the demand-side fields other than the trend are as restored
DemandSideKept ==
    /\ State.demands = restored.demands
    /\ State.my_prices = restored.my_prices
    /\ State.profit_history = restored.profit_history
    /\ State.demand_mean = restored.demand_mean
    /\ State.demand_m2 = restored.demand_m2
    /\ State.demand_count = restored.demand_count
    /\ State.profit_momentum = restored.profit_momentum

\* C6 as stated: a call without demand leaves the demand history, the own price
\* history, the profit history, the demand statistics, the profit momentum and
\* the demand trend as restored, even when the own last price is given.
C6_NoDemandKeepsAll ==
    (Returned /\ NoDemand) =>
        (DemandSideKept /\ State.demand_trend = restored.demand_trend)

\* C6 as amended: a call without demand leaves the histories, the demand
\* statistics and the profit momentum as restored; the demand trend is as
\* restored only while the demand history has fewer than 3 entries, and
\* otherwise moves by +0.2 (at most 1.0), by -0.2 (at least -1.0) or to 0.8
\* of its value, as the last and the third-last entry of that history compare.
C6_NoDemandKeepsAllButTrend ==
    (Returned /\ NoDemand) =>
        /\ DemandSideKept
        /\ LET h == restored.demands
               t == restored.demand_trend
               n == Len(h)
           IN  State.demand_trend =
                  IF n < 3 THEN t
                  ELSE IF FGt(h[n], h[n - 2]) THEN PyMin(Num(1), FAdd(t, Dec(2, 10)))
                  ELSE IF FLt(h[n], h[n - 2]) THEN PyMax(Num(-1), FSub(t, Dec(2, 10)))
                  ELSE FMul(t, Dec(8, 10))

\* a call with an own last price and no demand, on a record with at least three
\* demands: the demand side is kept and the demand trend moved
C6_Witness ==
    /\ Returned /\ NoDemand
    /\ last.feedback.my_last_price = Num(10)
    /\ Len(restored.demands) >= 3
    /\ State.demand_trend # restored.demand_trend

\* C9: in every state of a lineage that starts cold, 6.0 <= base price <= 15.0.
C9_BasePriceInRange == Returned => Within(State.base_price, 6, 15)

\* a not-a-number demand was folded, the momentum is not a number, and the base
\* price sits on its upper bound
C9_Witness ==
    /\ Returned
    /\ State.demand_count > 0
    /\ IsNaN(State.profit_momentum)
    /\ State.base_price = Num(15)

\* C10: in every state of a lineage that starts cold, both trend signals lie
\* between -1.0 and 1.0.
C10_TrendsInRange ==
    Returned =>
        /\ Within(State.competitor_trend, -1, 1)
        /\ Within(State.demand_trend, -1, 1)

\* the competitor price has been rising and the demand falling for longer than
\* the five steps that saturate a trend
C10_Witness ==
    /\ Returned
    /\ Len(State.competitor_prices) >= 10
    /\ State.competitor_trend = Num(1)
    /\ State.demand_trend = Num(-1)


\* the entries i..j of a sequence of numbers rise (fall) strictly
Rises(seq, i, j) == \A k \in i..(j - 1) : FLt(seq[k], seq[k + 1])
Falls(seq, i, j) == \A k \in i..(j - 1) : FGt(seq[k], seq[k + 1])

RunUp == ncalls = TrendRun /\ Rises(sent.competitor, 1, TrendRun)
RunUpAndDown ==
    /\ ncalls = 2 * TrendRun
    /\ Rises(sent.competitor, 1, TrendRun)
    /\ Falls(sent.competitor, TrendRun + 1, 2 * TrendRun)

\* C7 as stated: from cold start, five calls with strictly rising competitor
\* prices leave the competitor trend above 0.1, and five further calls with
\* strictly falling prices leave it below -0.1, whatever the prices.
C7_TrendFollowsRuns ==
    /\ (Returned /\ RunUp) => FGt(State.competitor_trend, Dec(1, 10))
    /\ (Returned /\ RunUpAndDown) => FLt(State.competitor_trend, Dec(-1, 10))

\* C7 as amended: the second half holds when the first of the falling prices
\* does not exceed the fourth of the rising prices (as 12 after 6, 8, 10, 12, 14).
C7_TrendFollowsJoinedRuns ==
    /\ (Returned /\ RunUp) => FGt(State.competitor_trend, Dec(1, 10))
    /\ (Returned /\ RunUpAndDown
          /\ ~FGt(sent.competitor[TrendRun + 1], sent.competitor[TrendRun - 1]))
       => FLt(State.competitor_trend, Dec(-1, 10))

\* the prices of the trend test, 6 8 10 12 14 and then 12 10 8 6 4, were fed
C7_Witness ==
    /\ Returned /\ RunUpAndDown
    /\ sent.competitor =
          <<Num(6), Num(8), Num(10), Num(12), Num(14),
            Num(12), Num(10), Num(8), Num(6), Num(4)>>
    /\ FLt(State.competitor_trend, Dec(-1, 10))

RECURSIVE SumOf(_)
SumOf(seq) == IF seq = <<>> THEN 0 ELSE Head(seq) + SumOf(Tail(seq))

\* the scaled values of a sequence of finite numbers, and their whole values
Scaled(seq) == [i \in 1..Len(seq) |-> seq[i][2]]
Whole(seq) == [i \in 1..Len(seq) |-> seq[i][2] \div Scale]
Squares(seq) == [i \in 1..Len(seq) |-> seq[i] * seq[i]]
AllFinite(seq) == \A i \in 1..Len(seq) : IsFinite(seq[i])
AllWhole(seq) == \A i \in 1..Len(seq) : IsFinite(seq[i]) /\ seq[i][2] % Scale = 0

\* C8: after folding n >= 1 finite demands from cold start the demand mean is
\* their arithmetic mean, and for n >= 2 the sum of squared deltas divided by
\* n - 1 is their sample variance, that is, the sum of squared deltas is
\* sum(x^2) - sum(x)^2 / n (stated for whole-number demands, times n); the
\* competitor mean is the arithmetic mean of the competitor prices folded.
C8_WelfordExact ==
    Returned =>
        LET xs == sent.demand
            n == Len(xs)
            cs == sent.competitor
        IN  /\ (n >= 1 /\ AllWhole(xs)) =>
                  /\ IsFinite(State.demand_mean)
                  /\ State.demand_mean[2] * n = SumOf(Scaled(xs))
                  /\ IsFinite(State.demand_m2)
                  /\ State.demand_m2[2] * n =
                        Scale * (n * SumOf(Squares(Whole(xs)))
                                   - SumOf(Whole(xs)) * SumOf(Whole(xs)))
            /\ (Len(cs) >= 1 /\ AllFinite(cs)) =>
                  /\ IsFinite(State.competitor_mean)
                  /\ State.competitor_mean[2] * Len(cs) = SumOf(Scaled(cs))

\* six demands, not all equal, and six competitor prices were folded without a gap
C8_Witness ==
    /\ Returned
    /\ Len(sent.demand) = 6 /\ AllWhole(sent.demand)
    /\ sent.demand[1] # sent.demand[6]
    /\ Len(sent.competitor) = 6 /\ AllFinite(sent.competitor)
    /\ State.demand_m2 # Num(0)

\* the call carried a competitor price; the call folded a demand observation
\* (a demand together with an own last price, given or defaulted)
CarriedCompetitor == ~(last.feedback.competitor_price \in {Absent, None})
FoldedDemand == ~NoDemand /\ last.feedback.my_last_price # None

\* C11: along a lineage the demand count is the number of calls since cold
\* start that folded a demand and the competitor count the number that carried
\* a competitor price; each count is one more than restored on such a call and
\* as restored otherwise, so it never decreases.
C11_CountsCountCalls ==
    Returned =>
        /\ State.demand_count = Len(sent.demand)
        /\ State.competitor_count = Len(sent.competitor)
        /\ State.demand_count = restored.demand_count + (IF FoldedDemand THEN 1 ELSE 0)
        /\ State.competitor_count =
              restored.competitor_count + (IF CarriedCompetitor THEN 1 ELSE 0)

\* six calls along one lineage, of which some carried no competitor price and
\* more carried no demand, the last one a zero competitor price without demand
C11_Witness ==
    /\ Returned /\ ncalls = 6 /\ last.kind = "dump"
    /\ State.competitor_count = 4 /\ State.demand_count = 2
    /\ last.feedback.competitor_price = Num(0)
    /\ CarriedCompetitor /\ ~FoldedDemand

\* the competitor-side fields other than the trend are as restored
CompetitorSideKept ==
    /\ State.competitor_prices = restored.competitor_prices
    /\ State.competitor_mean = restored.competitor_mean
    /\ State.competitor_m2 = restored.competitor_m2
    /\ State.competitor_count = restored.competitor_count

\* C12: a call without a competitor price leaves the competitor history, mean,
\* sum of squared deltas and count as restored, and its price has neither the
\* competitor-gap nor the competitor-trend term: it is the bounded,
\* demand-adjusted base price, and the base price itself while no more than
\* five demands have been folded.
C12_NoCompetitorKeepsAndSkips ==
    (Returned /\ ~CarriedCompetitor) =>
        /\ CompetitorSideKept
        /\ price = PriceBounds(State, DemandResponse(State, State.base_price))
        /\ State.demand_count <= 5 => price = State.base_price

\* a call without a competitor price on a record with at least three
\* competitor prices and a competitor trend that is not zero after the call
C12_Witness ==
    /\ Returned /\ ~CarriedCompetitor
    /\ Len(restored.competitor_prices) >= 3
    /\ State.competitor_trend # Num(0)
    /\ price = State.base_price

\* the last min(Len(seq), 30) entries of seq, in order
LastThirty(seq) ==
    LET n == Len(seq)
        k == IF n < 30 THEN n ELSE 30
    IN  SubSeq(seq, n - k + 1, n)

\* C13: after any sequence of calls from cold start the competitor price
\* history is the last min(n, 30) competitor prices supplied, in arrival
\* order, and the demand history the last min(m, 30) demands folded, in
\* arrival order: the entry evicted from a full buffer is the oldest one.
C13_HistoriesAreLatest ==
    Returned =>
        /\ State.competitor_prices = LastThirty(sent.competitor)
        /\ State.demands = LastThirty(sent.demand)

\* more than 30 competitor prices and demands, all different, were supplied,
\* with calls without feedback in between, and the first ones are gone
C13_Witness ==
    /\ Returned
    /\ Len(sent.competitor) > 30 /\ Len(sent.demand) > 30
    /\ ncalls > Len(sent.competitor)
    /\ Head(State.competitor_prices) # sent.competitor[1]
    /\ Head(State.demands) = sent.demand[Len(sent.demand) - 29]
    /\ State.competitor_prices[30] = sent.competitor[Len(sent.competitor)]

C15_FallbackKeepsBasePrice ==
    DumpsRaises(last.feedback) =>
        /\ Returned
        /\ DOMAIN State = {"season", "base_price"}
        /\ State.season = last.season
        /\ State.base_price = ended.base_price

C17_CompetitorTerm ==
    (Returned /\ CarriedCompetitor) =>
        LET cp == last.feedback.competitor_price
            B == State.base_price
            T == State.competitor_trend
            n == Len(State.competitor_prices)
            composed == IF FGt(cp, Num(0))
                        THEN FAdd(FAdd(B, FMul(Dec(3, 10), FSub(cp, B))), FMul(Dec(5, 10), T))
                        ELSE B
        IN  /\ price = PriceBounds(State, DemandResponse(State, composed))
            /\ State.demand_count <= 5 =>
                  price = PyMax(Num(1), PyMin(Num(20), composed))
            /\ n >= 1 /\ State.competitor_prices[n] = cp
            /\ State.competitor_count = restored.competitor_count + 1

\* a competitor price of 10 came in when the base price had drifted away from
\* 10 and the competitor trend was not zero, and the price is inside the bounds
C17_Witness ==
    /\ Returned /\ CarriedCompetitor
    /\ last.feedback.competitor_price = Num(10)
    /\ State.base_price # Num(10)
    /\ State.competitor_trend # Num(0)
    /\ price # State.base_price
    /\ FGt(price, Num(1)) /\ FLt(price, Num(20))

\* C18: in every state reached from cold start in which no demand has been
\* folded the base price is still 10.0, whatever competitor feedback came in.
C18_NoDriftBeforeDemand ==
    (Returned /\ State.demand_count = 0) => State.base_price = Num(10)

\* four calls or more with competitor feedback only, the competitor trend has
\* moved, and the base price is 10
C18_Witness ==
    /\ Returned /\ last.kind = "dump" /\ ncalls >= 4
    /\ State.demand_count = 0
    /\ State.competitor_count >= 3
    /\ State.competitor_trend # Num(0)
    /\ State.base_price = Num(10)

\* C19: when a demand comes without an own last price, the own price appended
\* to the own price history and used in profit = (own price - 5.0) * demand is
\* the base price as restored at the start of the call, before this call's drift.
C19_OwnPriceDefault ==
    (Returned /\ ~NoDemand /\ last.feedback.my_last_price = Absent) =>
        LET demand == last.feedback.demand
            own == restored.base_price
            n == Len(State.my_prices)
            m == Len(State.profit_history)
        IN  /\ n >= 1 /\ State.my_prices[n] = own
            /\ m >= 1 /\ State.profit_history[m] = FMul(FSub(own, Num(5)), demand)

\* a demand without an own price was folded by a call whose drift moved the
\* base price away from the restored one, itself not the cold-start 10
C19_Witness ==
    /\ Returned /\ ~NoDemand /\ last.feedback.my_last_price = Absent
    /\ last.feedback.demand = Num(2)
    /\ restored.base_price # Num(10)
    /\ State.base_price # restored.base_price
    /\ State.my_prices[Len(State.my_prices)] = restored.base_price

\* the trend step of the code on a history and a trend
SteppedTrend(h, t) ==
    LET n == Len(h)
    IN  IF n < 3 THEN t
        ELSE IF FGt(h[n], h[n - 2]) THEN PyMin(Num(1), FAdd(t, Dec(2, 10)))
        ELSE IF FLt(h[n], h[n - 2]) THEN PyMax(Num(-1), FSub(t, Dec(2, 10)))
        ELSE FMul(t, Dec(8, 10))

\* C20: the trend step looks at the length and the last three entries of the
\* history only, not at whether the call appended to it: a call without a
\* competitor price, on a history of three entries or more, still moves the
\* competitor trend by +0.2 (at most 1.0), by -0.2 (at least -1.0) or to 0.8 of
\* it, as the unchanged last and third-last entries compare; with fewer than
\* three entries the trend stays.
C20_TrendStepEveryCall ==
    Returned =>
        /\ State.competitor_trend =
              SteppedTrend(State.competitor_prices, restored.competitor_trend)
        /\ ~CarriedCompetitor =>
              /\ State.competitor_prices = restored.competitor_prices
              /\ Len(restored.competitor_prices) < 3 =>
                    State.competitor_trend = restored.competitor_trend

\* a call without a competitor price raised a competitor trend, already not
\* zero, by 0.2 once more
C20_Witness ==
    /\ Returned /\ ~CarriedCompetitor
    /\ Len(restored.competitor_prices) >= 3
    /\ restored.competitor_trend # Num(0)
    /\ State.competitor_trend = FAdd(restored.competitor_trend, Dec(2, 10))

\* the smaller of a count and the capacity of a history
Capped(n) == IF n < MAX_HISTORY THEN n ELSE MAX_HISTORY

\* C21: in every state reached from cold start the demand history, the own
\* price history and the profit history have the same length, min(demand
\* count, 30), and the competitor price history has length min(competitor
\* count, 30).
C21_LengthsFollowCounts ==
    Returned =>
        /\ Len(State.demands) = Capped(State.demand_count)
        /\ Len(State.my_prices) = Capped(State.demand_count)
        /\ Len(State.profit_history) = Capped(State.demand_count)
        /\ Len(State.competitor_prices) = Capped(State.competitor_count)

\* 32 calls, one of them without feedback: the counts stand at 31 and every
\* history at 30 entries
C21_Witness ==
    /\ Returned /\ ncalls = 32
    /\ State.demand_count = 31 /\ State.competitor_count = 31
    /\ Len(State.demands) = 30 /\ Len(State.my_prices) = 30
    /\ Len(State.profit_history) = 30 /\ Len(State.competitor_prices) = 30

=============================================================================
